---- MODULE Spec2Model ----
(***************************************************************************)
(* Operation-result caches of the rudd BDD engine (cache.go): the 3- and   *)
(* 4-field slot tables, the five specialized caches built on them (Apply   *)
(* with its Not sub-mode, ITE, Quant, AppEx, Replace), the cache manager   *)
(* (cacheinit, cachereset, cacheresize) and the quantification             *)
(* variable-set register (quantset2cache).                                 *)
(*                                                                         *)
(* Tables are Go slices, modelled as functions over 0..len-1.  The build   *)
(* modelled is the release build (_DEBUG false): the opHit/opMiss counters *)
(* are never written and are left out.                                     *)
(***************************************************************************)
EXTENDS Integers, Sequences, FiniteSets, TLC

VARIABLES
    applycache,    \* [ratio, table, op]       applycache   (data4ncache + op)
    itecache,      \* [ratio, table]           itecache     (data4ncache)
    quantcache,    \* [ratio, table, id]       quantcache   (data4ncache + id)
    appexcache,    \* [ratio, table, op, id]   appexcache   (data4ncache + op, id)
    replacecache,  \* [ratio, table, id]       replacecache (data3ncache + id)
    quantset,      \* b.quantset: level -> generation, a function over 0..len-1
    quantsetID,    \* b.quantsetID (int32)
    quantlast,     \* b.quantlast
    error,         \* b.error: TRUE when an error is recorded
    nodes,         \* b.nodes: id -> [level, low, high], a function over 0..len-1
    varnum,        \* b.varnum
    client,        \* the part of the engine this run's caller drives
    wraps,         \* number of times quantset2cache has restarted the counter
    lastop,        \* name of the most recent call that wrote the state
    arg,           \* its size argument (init, resize) or head (quantset2cache), else 0
    ret,           \* what the most recent quantset2cache or observed insert returned
    displaced,     \* the slot content the most recent observed insert overwrote
    invocation     \* the top-level apply calls of the run:
                   \* id -> [pc, op, left, right, got, raced]

caches == <<applycache, itecache, quantcache, appexcache, replacecache>>
register == <<quantset, quantsetID, quantlast, error, wraps, ret>>
vars == <<applycache, itecache, quantcache, appexcache, replacecache,
          quantset, quantsetID, quantlast, error, nodes, varnum,
          client, wraps, lastop, arg, ret, displaced, invocation>>

(***************************************************************************)
(* Bounds of the model.                                                    *)
(***************************************************************************)
MaxKey == 1        \* operands and results of the caches are node ids 0..MaxKey
MaxUnary == 2      \* operands of the unary caches (Not, Replace) are 0..MaxUnary
MaxDisc == 1       \* discriminants (operator codes, generation ids) 0..MaxDisc
MaxSize == 3       \* sizes handed to init / resize are -1..MaxSize
MaxRatio == 2      \* ratios handed to init are 0..MaxRatio
MaxFused == 0      \* fused operator codes of the AppEx cache are 0..MaxFused

Keys == 0..MaxKey
UnaryKeys == 0..MaxUnary
Discs == 0..MaxDisc
FusedOps == 0..MaxFused
Sizes == -1..MaxSize
Ratios == 0..MaxRatio


(***************************************************************************)
(* External collaborators, modelled from the specification.                *)
(***************************************************************************)
op_not == 10       \* the operator code reserved for complement

IsPrime(n) == n >= 2 /\ \A d \in 2..(n - 1) : n % d # 0

\* primeAtLeast: the smallest prime >= n
bdd_prime_gte(n) ==
    LET lo == IF n < 2 THEN 2 ELSE n
    IN  CHOOSE p \in lo..(2 * lo) : IsPrime(p) /\ \A q \in lo..(p - 1) : ~IsPrime(q)

\* pair(a, b, size): Cantor pairing of two non-negative integers, modulo size
_PAIR(a, b, len) == ((((a + b) * (a + b + 1)) \div 2) + a) % len

\* triple(a, b, c, size)
_TRIPLE(a, b, c, len) == _PAIR(c, _PAIR(a, b, len), len)

\* Go's integer division truncates toward zero
GoDiv(a, b) == IF a >= 0 THEN a \div b ELSE -((-a) \div b)

(***************************************************************************)
(* Slot tables.                                                            *)
(***************************************************************************)
\* make([]data4n, size): every field zero
make4(size) == [k \in 0..(size - 1) |-> [res |-> 0, a |-> 0, b |-> 0, c |-> 0]]

\* make([]data3n, size)
make3(size) == [k \in 0..(size - 1) |-> [res |-> 0, a |-> 0, c |-> 0]]

len(table) == Cardinality(DOMAIN table)

\* a reset whose loop starts at slot 1
reset4_from1(bc) ==
    [bc EXCEPT !.table = [k \in DOMAIN bc.table |->
        IF k = 0 THEN bc.table[k] ELSE [bc.table[k] EXCEPT !.a = -1]]]

\* data4ncache.reset: only the first key field of every slot is written
reset4(bc) == [bc EXCEPT !.table = [k \in DOMAIN bc.table |-> [bc.table[k] EXCEPT !.a = -1]]]

\* data3ncache.reset
reset3(bc) == [bc EXCEPT !.table = [k \in DOMAIN bc.table |-> [bc.table[k] EXCEPT !.a = -1]]]

\* an init that allocates the table and does not reset it
init4_noreset(bc, size, ratio) ==
    [bc EXCEPT !.table = make4(bdd_prime_gte(size)), !.ratio = ratio]

\* data4ncache.init
init4(bc, size, ratio) ==
    reset4([bc EXCEPT !.table = make4(bdd_prime_gte(size)), !.ratio = ratio])

\* data3ncache.init
init3(bc, size, ratio) ==
    reset3([bc EXCEPT !.table = make3(bdd_prime_gte(size)), !.ratio = ratio])

\* a resize that does not divide the requested size by the ratio
resize4_nodiv(bc, size) ==
    IF bc.ratio > 0
    THEN reset4([bc EXCEPT !.table = make4(bdd_prime_gte(size))])
    ELSE reset4(bc)

\* data4ncache.resize
resize4(bc, size) ==
    IF bc.ratio > 0
    THEN reset4([bc EXCEPT !.table = make4(bdd_prime_gte(GoDiv(size, bc.ratio)))])
    ELSE reset4(bc)

\* a resize that leaves the table alone when the ratio is 0
resize3_keep(bc, size) ==
    IF bc.ratio > 0
    THEN reset3([bc EXCEPT !.table = make3(bdd_prime_gte(GoDiv(size, bc.ratio)))])
    ELSE bc

\* data3ncache.resize
resize3(bc, size) ==
    IF bc.ratio > 0
    THEN reset3([bc EXCEPT !.table = make3(bdd_prime_gte(GoDiv(size, bc.ratio)))])
    ELSE reset3(bc)

(***************************************************************************)
(* Specialized caches: match returns the cached result or -1, set returns  *)
(* the cache after the write.                                              *)
(***************************************************************************)
\* a lookup that does not compare the operator code
matchapply_anyop(bc, left, right) ==
    LET entry == bc.table[_TRIPLE(left, right, bc.op, len(bc.table))]
    IN  IF entry.a = left /\ entry.b = right THEN entry.res ELSE -1

matchapply(bc, left, right) ==
    LET entry == bc.table[_TRIPLE(left, right, bc.op, len(bc.table))]
    IN  IF entry.a = left /\ entry.b = right /\ entry.c = bc.op THEN entry.res ELSE -1

\* an insert that does not store the operator code
setapply_noop(bc, left, right, res) ==
    [bc EXCEPT !.table[_TRIPLE(left, right, bc.op, len(bc.table))] =
        [res |-> res, a |-> left, b |-> right, c |-> 0]]

\* an insert that spares a slot in use
setapply_ifempty(bc, left, right, res) ==
    IF bc.table[_TRIPLE(left, right, bc.op, len(bc.table))].a = -1
    THEN [bc EXCEPT !.table[_TRIPLE(left, right, bc.op, len(bc.table))] =
            [res |-> res, a |-> left, b |-> right, c |-> bc.op]]
    ELSE bc

setapply(bc, left, right, res) ==
    [bc EXCEPT !.table[_TRIPLE(left, right, bc.op, len(bc.table))] =
        [res |-> res, a |-> left, b |-> right, c |-> bc.op]]

\* a Not lookup that does not compare the tag
matchnot_anytag(bc, n) ==
    LET entry == bc.table[n % len(bc.table)]
    IN  IF entry.a = n THEN entry.res ELSE -1

matchnot(bc, n) ==
    LET entry == bc.table[n % len(bc.table)]
    IN  IF entry.a = n /\ entry.c = op_not THEN entry.res ELSE -1

setnot(bc, n, res) ==
    [bc EXCEPT !.table[n % len(bc.table)] =
        [res |-> res, a |-> n, b |-> 0, c |-> op_not]]

matchite(bc, f, g, h) ==
    LET entry == bc.table[_TRIPLE(f, g, h, len(bc.table))]
    IN  IF entry.a = f /\ entry.b = g /\ entry.c = h THEN entry.res ELSE -1

setite(bc, f, g, h, res) ==
    [bc EXCEPT !.table[_TRIPLE(f, g, h, len(bc.table))] =
        [res |-> res, a |-> f, b |-> g, c |-> h]]

\* a lookup that does not compare the generation id
matchquant_anyid(bc, n, varset) ==
    LET entry == bc.table[_PAIR(n, varset, len(bc.table))]
    IN  IF entry.a = n /\ entry.b = varset THEN entry.res ELSE -1

\* a lookup that does not compare the variable set
matchquant_anyset(bc, n, varset) ==
    LET entry == bc.table[_PAIR(n, varset, len(bc.table))]
    IN  IF entry.a = n /\ entry.c = bc.id THEN entry.res ELSE -1

matchquant(bc, n, varset) ==
    LET entry == bc.table[_PAIR(n, varset, len(bc.table))]
    IN  IF entry.a = n /\ entry.b = varset /\ entry.c = bc.id THEN entry.res ELSE -1

\* an insert that hashes the key with its fields swapped
setquant_swapped(bc, n, varset, res) ==
    [bc EXCEPT !.table[_PAIR(varset, n, len(bc.table))] =
        [res |-> res, a |-> n, b |-> varset, c |-> bc.id]]

setquant(bc, n, varset, res) ==
    [bc EXCEPT !.table[_PAIR(n, varset, len(bc.table))] =
        [res |-> res, a |-> n, b |-> varset, c |-> bc.id]]

\* a lookup that does not compare the packed id
matchappex_anyid(bc, left, right) ==
    LET entry == bc.table[_TRIPLE(left, right, bc.id, len(bc.table))]
    IN  IF entry.a = left /\ entry.b = right THEN entry.res ELSE -1

matchappex(bc, left, right) ==
    LET entry == bc.table[_TRIPLE(left, right, bc.id, len(bc.table))]
    IN  IF entry.a = left /\ entry.b = right /\ entry.c = bc.id THEN entry.res ELSE -1

setappex(bc, left, right, res) ==
    [bc EXCEPT !.table[_TRIPLE(left, right, bc.id, len(bc.table))] =
        [res |-> res, a |-> left, b |-> right, c |-> bc.id]]

\* a lookup that does not compare the discriminant
matchreplace_anyid(bc, n) ==
    LET entry == bc.table[n % len(bc.table)]
    IN  IF entry.a = n THEN entry.res ELSE -1

matchreplace(bc, n) ==
    LET entry == bc.table[n % len(bc.table)]
    IN  IF entry.a = n /\ entry.c = bc.id THEN entry.res ELSE -1

setreplace(bc, n, res) ==
    [bc EXCEPT !.table[n % len(bc.table)] = [res |-> res, a |-> n, c |-> bc.id]]

(***************************************************************************)
(* The node table (external): ids 0 and 1 are the terminals, every other   *)
(* node of the model is a variable-set node: low is the false terminal and *)
(* high is the true terminal or a node of a greater level.                 *)
(***************************************************************************)
NumVars == 2       \* variable levels are 0..NumVars-1
MaxVarNodes == 2   \* the node table holds at most this many non-terminal nodes

NodeTable(K, lev, hi) ==
    [i \in 0..(K + 1) |->
        IF i < 2 THEN [level |-> NumVars, low |-> i, high |-> i]
        ELSE [level |-> lev[i], low |-> 0, high |-> hi[i]]]

NodeTablesOf(K) ==
    { NodeTable(K, p[1], p[2]) :
        p \in { q \in [2..(K + 1) -> 0..(NumVars - 1)] \X [2..(K + 1) -> 1..(K + 1)] :
                  \A i \in 2..(K + 1) : q[2][i] = 1 \/ q[1][q[2][i]] > q[1][i] } }

NodeTables == UNION { NodeTablesOf(K) : K \in 0..MaxVarNodes }

\* a table of K single-variable sets, the levels taken in turn
FlatTable(K) ==
    NodeTable(K, [i \in 2..(K + 1) |-> i % NumVars], [i \in 2..(K + 1) |-> 1])

\* the table of K variable-set nodes forming one chain over levels 0..K-1
ChainTable(K) ==
    NodeTable(K, [i \in 2..(K + 1) |-> i - 2], [i \in 2..(K + 1) |-> IF i = K + 1 THEN 1 ELSE i + 1])

(***************************************************************************)
(* Cache manager.                                                          *)
(***************************************************************************)
\* make([]int32, n)
make32(n) == [k \in 0..(n - 1) |-> 0]

\* a default taken for negative sizes only
cacheinit_size_lt0(size) ==
    bdd_prime_gte(IF size < 0 THEN GoDiv(len(nodes), 4) + 1 ELSE size)

\* the size cacheinit hands to every init
cacheinit_size(size) ==
    bdd_prime_gte(IF size <= 0 THEN GoDiv(len(nodes), 4) + 1 ELSE size)

\* the zero values applycache{}, itecache{}, ... : a nil table, zero fields
nil4 == make4(0)
nil3 == make3(0)

cacheinit(size, ratio) ==
    /\ quantset' = make32(0)
    /\ applycache' = init4([ratio |-> 0, table |-> nil4, op |-> 0], cacheinit_size(size), ratio)
    /\ itecache' = init4([ratio |-> 0, table |-> nil4], cacheinit_size(size), ratio)
    /\ quantcache' = init4([ratio |-> 0, table |-> nil4, id |-> 0], cacheinit_size(size), ratio)
    /\ appexcache' = init4([ratio |-> 0, table |-> nil4, op |-> 0, id |-> 0], cacheinit_size(size), ratio)
    /\ replacecache' = init3([ratio |-> 0, table |-> nil3, id |-> 0], cacheinit_size(size), ratio)

\* a reset that forgets the Replace cache
cachereset_four ==
    /\ applycache' = reset4(applycache)
    /\ itecache' = reset4(itecache)
    /\ quantcache' = reset4(quantcache)
    /\ appexcache' = reset4(appexcache)
    /\ replacecache' = replacecache

cachereset ==
    /\ applycache' = reset4(applycache)
    /\ itecache' = reset4(itecache)
    /\ quantcache' = reset4(quantcache)
    /\ appexcache' = reset4(appexcache)
    /\ replacecache' = reset3(replacecache)

cacheresize ==
    /\ applycache' = resize4(applycache, len(nodes))
    /\ itecache' = resize4(itecache, len(nodes))
    /\ quantcache' = resize4(quantcache, len(nodes))
    /\ appexcache' = resize4(appexcache, len(nodes))
    /\ replacecache' = resize3(replacecache, len(nodes))

(***************************************************************************)
(* Quantification variable-set register.                                   *)
(***************************************************************************)
MaxInt32 == 2147483647

\* a loop that marks the head of the chain only
walk_head(i, qs, ql, id) ==
    IF i > 1
    THEN <<[qs EXCEPT ![nodes[i].level] = id], nodes[i].level>>
    ELSE <<qs, ql>>

RECURSIVE walk_stale(_, _, _, _)
\* a loop that does not record the level of the last node it visits
walk_stale(i, qs, ql, id) ==
    IF i > 1
    THEN walk_stale(nodes[i].high, [qs EXCEPT ![nodes[i].level] = id],
                    IF nodes[i].high > 1 THEN nodes[i].level ELSE ql, id)
    ELSE <<qs, ql>>

RECURSIVE walk(_, _, _, _)
\* the loop of quantset2cache from node i: <<quantset, quantlast>> at its end
walk(i, qs, ql, id) ==
    IF i > 1
    THEN walk(nodes[i].high, [qs EXCEPT ![nodes[i].level] = id], nodes[i].level, id)
    ELSE <<qs, ql>>

\* a registration that keeps the register when the counter wraps
quantset2cache_keep(n) ==
    IF n < 2
    THEN <<quantset, quantsetID, quantlast, TRUE, "illegal varset">>
    ELSE LET wrap == quantsetID + 1 = MaxInt32
             id == IF wrap THEN 1 ELSE quantsetID + 1
             w == walk(n, quantset, quantlast, id)
         IN  <<w[1], id, w[2], error, "nil">>

\* a registration that accepts node 1
quantset2cache_lt1(n) ==
    IF n < 1
    THEN <<quantset, quantsetID, quantlast, TRUE, "illegal varset">>
    ELSE LET wrap == quantsetID + 1 = MaxInt32
             id == IF wrap THEN 1 ELSE quantsetID + 1
             qs == IF wrap THEN make32(varnum) ELSE quantset
             w == walk(n, qs, quantlast, id)
         IN  <<w[1], id, w[2], error, "nil">>

\* a registration that takes a new generation before it checks its head
quantset2cache_count(n) ==
    IF n < 2
    THEN <<quantset, quantsetID + 1, quantlast, TRUE, "illegal varset">>
    ELSE LET wrap == quantsetID + 1 = MaxInt32
             id == IF wrap THEN 1 ELSE quantsetID + 1
             qs == IF wrap THEN make32(varnum) ELSE quantset
             w == walk(n, qs, quantlast, id)
         IN  <<w[1], id, w[2], error, "nil">>

\* quantset2cache(n): <<quantset, quantsetID, quantlast, error, returned error>>
quantset2cache(n) ==
    IF n < 2
    THEN <<quantset, quantsetID, quantlast, TRUE, "illegal varset">>
    ELSE LET wrap == quantsetID + 1 = MaxInt32
             id == IF wrap THEN 1 ELSE quantsetID + 1
             qs == IF wrap THEN make32(varnum) ELSE quantset
             w == walk(n, qs, quantlast, id)
         IN  <<w[1], id, w[2], error, "nil">>

RECURSIVE chain(_)
\* the levels of the nodes on the high-link chain from node i to a terminal
chain(i) == IF i > 1 THEN {nodes[i].level} \cup chain(nodes[i].high) ELSE {}

(***************************************************************************)
(* The state machine.  The five caches are separate tables and no handler  *)
(* of one reads another, so each run has one client: the recursive         *)
(* operation family whose calls on its cache the run explores (Spec), or   *)
(* the user of the variable-set register (SpecVarset).  Further            *)
(* specifications put the same handlers in the settings of single          *)
(* properties: successive quantifications (SpecQuant), fused operators and *)
(* variable sets (SpecAppex), inserts with their return values             *)
(* (SpecInsert), interleaved apply calls (SpecRace) and the cache manager  *)
(* on an engine in use (SpecManager).                                      *)
(***************************************************************************)
MaxGen == 2        \* registrations are explored while quantsetID < MaxGen ...
GenSlack == 1      \* ... or from GenSlack + 1 registrations before the wrap on

MaxInvocations == 2   \* top-level apply calls that may be in flight together
Invocations == 1..MaxInvocations

\* a top-level call that has not started
Idle == [pc |-> "idle", op |-> 0, left |-> 0, right |-> 0, got |-> -1, raced |-> FALSE]

\* no slot content
NoEntry == [res |-> 0, a |-> -1, c |-> 0]

Clients == {"apply", "ite", "quant", "appex", "replace"}

\* a long-running engine's counter, GenSlack + 1 registrations before the wrap
AgedID == MaxInt32 - 1 - GenSlack

\* a register such an engine can hold: every stored generation is at most
\* the counter
AgedRegisters == [0..(NumVars - 1) -> {0, 1, AgedID}]

\* the engine as constructed: cacheinit with no size given and a zero ratio
\* on a zeroed buddy; init on a table gives it any other size and ratio
Constructed ==
    /\ varnum = NumVars
    /\ quantlast = 0
    /\ error = FALSE
    /\ applycache = init4([ratio |-> 0, table |-> nil4, op |-> 0], cacheinit_size(0), 0)
    /\ itecache = init4([ratio |-> 0, table |-> nil4], cacheinit_size(0), 0)
    /\ quantcache = init4([ratio |-> 0, table |-> nil4, id |-> 0], cacheinit_size(0), 0)
    /\ appexcache = init4([ratio |-> 0, table |-> nil4, op |-> 0, id |-> 0], cacheinit_size(0), 0)
    /\ replacecache = init3([ratio |-> 0, table |-> nil3, id |-> 0], cacheinit_size(0), 0)
    /\ wraps = 0
    /\ lastop = "cacheinit"
    /\ arg = 0
    /\ ret = "nil"
    /\ displaced = NoEntry
    /\ invocation = [p \in Invocations |-> Idle]

\* runs of one of the five recursive operation families on its cache
Init ==
    /\ client \in Clients
    /\ nodes = ChainTable(MaxVarNodes)
    /\ quantsetID = 0
    /\ quantset = make32(0)
    /\ Constructed

\* runs of the variable-set user, on a new engine or on a long-running one
InitVarset ==
    /\ client = "varset"
    /\ nodes \in NodeTables
    /\ \/ quantsetID = 0 /\ quantset = make32(0)
       \/ quantsetID = AgedID /\ quantset \in AgedRegisters
    /\ Constructed

Called(name, a) ==
    /\ lastop' = name
    /\ arg' = a
    /\ UNCHANGED <<nodes, varnum, client, displaced, invocation>>

\* ---- manager -----------------------------------------------------------
CacheInit(size, ratio) ==
    /\ cacheinit(size, ratio)
    /\ Called("cacheinit", size)
    /\ UNCHANGED <<quantsetID, quantlast, error, wraps, ret>>

CacheReset ==
    /\ cachereset
    /\ Called("cachereset", 0)
    /\ UNCHANGED register

CacheResize ==
    /\ cacheresize
    /\ Called("cacheresize", 0)
    /\ UNCHANGED register

\* ---- Apply and Not -----------------------------------------------------
ApplyFrame == UNCHANGED <<itecache, quantcache, appexcache, replacecache, register>>

\* the caller of apply sets the operator before its recursion; never op_not
SetApplyOp(op) ==
    /\ client = "apply"
    /\ applycache' = [applycache EXCEPT !.op = op]
    /\ UNCHANGED <<lastop, arg, nodes, varnum, client, displaced, invocation>> /\ ApplyFrame

MatchApply(left, right) ==
    /\ client = "apply"
    /\ matchapply(applycache, left, right) \in Int
    /\ UNCHANGED vars

SetApply(left, right, res) ==
    /\ client = "apply"
    /\ applycache' = setapply(applycache, left, right, res)
    /\ Called("setapply", 0) /\ ApplyFrame

MatchNot(n) ==
    /\ client = "apply"
    /\ matchnot(applycache, n) \in Int
    /\ UNCHANGED vars

SetNot(n, res) ==
    /\ client = "apply"
    /\ applycache' = setnot(applycache, n, res)
    /\ Called("setnot", 0) /\ ApplyFrame

ApplyInit(size, ratio) ==
    /\ client = "apply"
    /\ applycache' = init4(applycache, size, ratio)
    /\ Called("init", size) /\ ApplyFrame

ApplyResize(size) ==
    /\ client = "apply"
    /\ applycache' = resize4(applycache, size)
    /\ Called("resize", size) /\ ApplyFrame

ApplyReset ==
    /\ client = "apply"
    /\ applycache' = reset4(applycache)
    /\ Called("reset", 0) /\ ApplyFrame


\* ---- Ite ---------------------------------------------------------------
IteFrame == UNCHANGED <<applycache, quantcache, appexcache, replacecache, register>>

MatchIte(f, g, h) ==
    /\ client = "ite"
    /\ matchite(itecache, f, g, h) \in Int
    /\ UNCHANGED vars

SetIte(f, g, h, res) ==
    /\ client = "ite"
    /\ itecache' = setite(itecache, f, g, h, res)
    /\ Called("setite", 0) /\ IteFrame

IteInit(size, ratio) ==
    /\ client = "ite"
    /\ itecache' = init4(itecache, size, ratio)
    /\ Called("init", size) /\ IteFrame

IteResize(size) ==
    /\ client = "ite"
    /\ itecache' = resize4(itecache, size)
    /\ Called("resize", size) /\ IteFrame

IteReset ==
    /\ client = "ite"
    /\ itecache' = reset4(itecache)
    /\ Called("reset", 0) /\ IteFrame

\* ---- Quant -------------------------------------------------------------
QuantFrame == UNCHANGED <<applycache, itecache, appexcache, replacecache, register>>

\* the caller of a quantification sets the id before its recursion
SetQuantId(id) ==
    /\ client = "quant"
    /\ quantcache' = [quantcache EXCEPT !.id = id]
    /\ UNCHANGED <<lastop, arg, nodes, varnum, client, displaced, invocation>> /\ QuantFrame

MatchQuant(n, varset) ==
    /\ client = "quant"
    /\ matchquant(quantcache, n, varset) \in Int
    /\ UNCHANGED vars

SetQuant(n, varset, res) ==
    /\ client = "quant"
    /\ quantcache' = setquant(quantcache, n, varset, res)
    /\ Called("setquant", 0) /\ QuantFrame

QuantInit(size, ratio) ==
    /\ client = "quant"
    /\ quantcache' = init4(quantcache, size, ratio)
    /\ Called("init", size) /\ QuantFrame

QuantResize(size) ==
    /\ client = "quant"
    /\ quantcache' = resize4(quantcache, size)
    /\ Called("resize", size) /\ QuantFrame

QuantReset ==
    /\ client = "quant"
    /\ quantcache' = reset4(quantcache)
    /\ Called("reset", 0) /\ QuantFrame

\* ---- Appex -------------------------------------------------------------
AppexFrame == UNCHANGED <<applycache, itecache, quantcache, replacecache, register>>

\* the caller of a fused apply-and-quantify sets the operator and the id,
\* which packs the variable set and the operator: varset << 2 | op
SetAppexId(op, varset) ==
    /\ client = "appex"
    /\ appexcache' = [appexcache EXCEPT !.op = op, !.id = (varset * 4) + op]
    /\ UNCHANGED <<lastop, arg, nodes, varnum, client, displaced, invocation>> /\ AppexFrame

MatchAppex(left, right) ==
    /\ client = "appex"
    /\ matchappex(appexcache, left, right) \in Int
    /\ UNCHANGED vars

SetAppex(left, right, res) ==
    /\ client = "appex"
    /\ appexcache' = setappex(appexcache, left, right, res)
    /\ Called("setappex", 0) /\ AppexFrame

AppexInit(size, ratio) ==
    /\ client = "appex"
    /\ appexcache' = init4(appexcache, size, ratio)
    /\ Called("init", size) /\ AppexFrame

AppexResize(size) ==
    /\ client = "appex"
    /\ appexcache' = resize4(appexcache, size)
    /\ Called("resize", size) /\ AppexFrame

AppexReset ==
    /\ client = "appex"
    /\ appexcache' = reset4(appexcache)
    /\ Called("reset", 0) /\ AppexFrame

\* ---- Replace -----------------------------------------------------------
ReplaceFrame == UNCHANGED <<applycache, itecache, quantcache, appexcache, register>>

\* the caller of replace sets the id before its recursion
SetReplaceId(id) ==
    /\ client = "replace"
    /\ replacecache' = [replacecache EXCEPT !.id = id]
    /\ UNCHANGED <<lastop, arg, nodes, varnum, client, displaced, invocation>> /\ ReplaceFrame

MatchReplace(n) ==
    /\ client = "replace"
    /\ matchreplace(replacecache, n) \in Int
    /\ UNCHANGED vars

SetReplace(n, res) ==
    /\ client = "replace"
    /\ replacecache' = setreplace(replacecache, n, res)
    /\ Called("setreplace", 0) /\ ReplaceFrame

ReplaceInit(size, ratio) ==
    /\ client = "replace"
    /\ replacecache' = init3(replacecache, size, ratio)
    /\ Called("init", size) /\ ReplaceFrame

ReplaceResize(size) ==
    /\ client = "replace"
    /\ replacecache' = resize3(replacecache, size)
    /\ Called("resize", size) /\ ReplaceFrame

ReplaceReset ==
    /\ client = "replace"
    /\ replacecache' = reset3(replacecache)
    /\ Called("reset", 0) /\ ReplaceFrame

\* ---- variable-set register ---------------------------------------------
\* the register is sized from the variable count before its first use
SizeRegister ==
    /\ len(quantset) # varnum
    /\ quantset' = make32(varnum)
    /\ Called("sizeregister", 0)
    /\ UNCHANGED <<caches, quantsetID, quantlast, error, wraps, ret>>

Quantset2cache(n) ==
    /\ len(quantset) = varnum
    /\ quantsetID < MaxGen \/ quantsetID >= AgedID
    /\ quantset' = quantset2cache(n)[1]
    /\ quantsetID' = quantset2cache(n)[2]
    /\ quantlast' = quantset2cache(n)[3]
    /\ error' = quantset2cache(n)[4]
    /\ ret' = quantset2cache(n)[5]
    /\ wraps' = IF n >= 2 /\ quantsetID + 1 = MaxInt32 THEN wraps + 1 ELSE wraps
    /\ Called("quantset2cache", n)
    /\ UNCHANGED caches

Next ==
    \/ \E op \in Discs : SetApplyOp(op)
    \/ \E left \in Keys, right \in Keys : MatchApply(left, right)
    \/ \E left \in Keys, right \in Keys, res \in Keys : SetApply(left, right, res)
    \/ \E n \in UnaryKeys : MatchNot(n)
    \/ \E n \in UnaryKeys, res \in Keys : SetNot(n, res)
    \/ \E size \in Sizes, ratio \in Ratios : ApplyInit(size, ratio)
    \/ \E size \in Sizes : ApplyResize(size)
    \/ ApplyReset
    \/ \E f \in Keys, g \in Keys, h \in Keys : MatchIte(f, g, h)
    \/ \E f \in Keys, g \in Keys, h \in Keys, res \in Keys : SetIte(f, g, h, res)
    \/ \E size \in Sizes, ratio \in Ratios : IteInit(size, ratio)
    \/ \E size \in Sizes : IteResize(size)
    \/ IteReset
    \/ \E id \in Discs : SetQuantId(id)
    \/ \E n \in Keys, varset \in Keys : MatchQuant(n, varset)
    \/ \E n \in Keys, varset \in Keys, res \in Keys : SetQuant(n, varset, res)
    \/ \E size \in Sizes, ratio \in Ratios : QuantInit(size, ratio)
    \/ \E size \in Sizes : QuantResize(size)
    \/ QuantReset
    \/ \E op \in FusedOps, varset \in Discs : SetAppexId(op, varset)
    \/ \E left \in Keys, right \in Keys : MatchAppex(left, right)
    \/ \E left \in Keys, right \in Keys, res \in Keys : SetAppex(left, right, res)
    \/ \E size \in Sizes, ratio \in Ratios : AppexInit(size, ratio)
    \/ \E size \in Sizes : AppexResize(size)
    \/ AppexReset
    \/ \E id \in Discs : SetReplaceId(id)
    \/ \E n \in UnaryKeys : MatchReplace(n)
    \/ \E n \in UnaryKeys, res \in Keys : SetReplace(n, res)
    \/ \E size \in Sizes, ratio \in Ratios : ReplaceInit(size, ratio)
    \/ \E size \in Sizes : ReplaceResize(size)
    \/ ReplaceReset

Spec == Init /\ [][Next]_vars

NextVarset ==
    \/ SizeRegister
    \/ \E n \in DOMAIN nodes : Quantset2cache(n)

SpecVarset == InitVarset /\ [][NextVarset]_vars

\* ---- quantifications, one after another ---------------------------------
\* A top-level quantification registers its variable set and then recurses,
\* handing the variable-set node it registered to every lookup and insert.
Heads == DOMAIN nodes \ {0, 1}

\* the nodes that denote the variable set the register holds
ActiveVarsets ==
    IF len(quantset) = varnum /\ quantsetID > 0
    THEN {h \in Heads : chain(h) = {l \in 0..(varnum - 1) : quantset[l] = quantsetID}}
    ELSE {}

InitQuant == Init /\ client = "quant"

NextQuant ==
    \/ SizeRegister
    \/ \E n \in Heads : Quantset2cache(n)
    \/ \E id \in Discs : SetQuantId(id)
    \/ \E n \in Keys, varset \in ActiveVarsets : MatchQuant(n, varset)
    \/ \E n \in Keys, varset \in ActiveVarsets, res \in Keys : SetQuant(n, varset, res)
    \/ QuantReset

SpecQuant == InitQuant /\ [][NextQuant]_vars

\* ---- inserts as their caller sees them -----------------------------------
\* setapply and setreplace with the value they return, and with the content
\* of the slot they write as it was before the call
InsertApply(left, right, res) ==
    /\ client = "apply"
    /\ applycache' = setapply(applycache, left, right, res)
    /\ ret' = res
    /\ displaced' = applycache.table[_TRIPLE(left, right, applycache.op, len(applycache.table))]
    /\ lastop' = "setapply"
    /\ arg' = 0
    /\ UNCHANGED <<itecache, quantcache, appexcache, replacecache, quantset, quantsetID,
                   quantlast, error, wraps, nodes, varnum, client, invocation>>

InsertReplace(n, res) ==
    /\ client = "replace"
    /\ replacecache' = setreplace(replacecache, n, res)
    /\ ret' = res
    /\ displaced' = replacecache.table[n % len(replacecache.table)]
    /\ lastop' = "setreplace"
    /\ arg' = 0
    /\ UNCHANGED <<applycache, itecache, quantcache, appexcache, quantset, quantsetID,
                   quantlast, error, wraps, nodes, varnum, client, invocation>>

InitInsert == Init /\ client \in {"apply", "replace"}

NextInsert ==
    \/ \E op \in Discs : SetApplyOp(op)
    \/ \E left \in Keys, right \in Keys : MatchApply(left, right)
    \/ \E left \in Keys, right \in Keys, res \in Keys : InsertApply(left, right, res)
    \/ \E id \in Discs : SetReplaceId(id)
    \/ \E n \in UnaryKeys : MatchReplace(n)
    \/ \E n \in UnaryKeys, res \in Keys : InsertReplace(n, res)

SpecInsert == InitInsert /\ [][NextInsert]_vars

\* ---- top-level apply calls sharing the Apply cache -----------------------
\* A top-level apply sets the operator of the cache, looks its operands up
\* and, on a miss, computes the result and inserts it.  The engine is meant
\* for one thread; here up to MaxInvocations calls take their steps in any
\* order, as calls from several threads would.

\* the node apply computes for (op, left, right): on the operands of the
\* model, different operators give different nodes
applyresult(op, left, right) == op

InFlight == {q \in Invocations : invocation[q].pc \in {"lookup", "insert"}}

RaceFrame ==
    UNCHANGED <<itecache, quantcache, appexcache, replacecache, register,
                nodes, varnum, client, displaced>>

BeginApply(p, op, left, right) ==
    /\ client = "apply"
    /\ invocation[p].pc = "idle"
    /\ applycache' = [applycache EXCEPT !.op = op]
    /\ invocation' =
          [q \in Invocations |->
              IF q = p
              THEN [pc |-> "lookup", op |-> op, left |-> left, right |-> right,
                    got |-> -1, raced |-> InFlight # {}]
              ELSE IF q \in InFlight
                   THEN [invocation[q] EXCEPT !.raced = TRUE]
                   ELSE invocation[q]]
    /\ UNCHANGED <<lastop, arg>> /\ RaceFrame

LookupApply(p) ==
    /\ client = "apply"
    /\ invocation[p].pc = "lookup"
    /\ LET res == matchapply(applycache, invocation[p].left, invocation[p].right)
       IN  invocation' = [invocation EXCEPT ![p].got = res,
                             ![p].pc = IF res = -1 THEN "insert" ELSE "done"]
    /\ UNCHANGED <<applycache, lastop, arg>> /\ RaceFrame

StoreApply(p) ==
    /\ client = "apply"
    /\ invocation[p].pc = "insert"
    /\ LET res == applyresult(invocation[p].op, invocation[p].left, invocation[p].right)
       IN  /\ applycache' = setapply(applycache, invocation[p].left, invocation[p].right, res)
           /\ invocation' = [invocation EXCEPT ![p].got = res, ![p].pc = "done"]
    /\ lastop' = "setapply"
    /\ arg' = 0
    /\ RaceFrame

InitRace == Init /\ client = "apply"

NextRace ==
    \/ \E p \in Invocations, op \in Discs, left \in Keys, right \in Keys :
          BeginApply(p, op, left, right)
    \/ \E p \in Invocations : LookupApply(p)
    \/ \E p \in Invocations : StoreApply(p)

SpecRace == InitRace /\ [][NextRace]_vars

\* ---- the cache manager over an engine in use -----------------------------
\* The engine holds ManagerNodes variable nodes; the client of the run uses
\* its cache on one key, variable sets are registered, and the manager
\* initializes, resets and resizes the five caches at any time.
ManagerNodes == 6

InitManager ==
    /\ client \in Clients
    /\ nodes = FlatTable(ManagerNodes)
    /\ quantsetID = 0
    /\ quantset = make32(0)
    /\ Constructed

NextManager ==
    \/ \E size \in Sizes, ratio \in Ratios : CacheInit(size, ratio)
    \/ CacheReset
    \/ CacheResize
    \/ SizeRegister
    \/ \E n \in Heads : Quantset2cache(n)
    \/ \E op \in Discs : SetApplyOp(op)
    \/ MatchApply(MaxKey, MaxKey)
    \/ \E res \in Keys : SetApply(MaxKey, MaxKey, res)
    \/ MatchNot(MaxUnary)
    \/ \E res \in Keys : SetNot(MaxUnary, res)
    \/ MatchIte(MaxKey, MaxKey, MaxKey)
    \/ \E res \in Keys : SetIte(MaxKey, MaxKey, MaxKey, res)
    \/ \E id \in Discs : SetQuantId(id)
    \/ MatchQuant(MaxKey, MaxKey)
    \/ \E res \in Keys : SetQuant(MaxKey, MaxKey, res)
    \/ \E op \in FusedOps, varset \in Discs : SetAppexId(op, varset)
    \/ MatchAppex(MaxKey, MaxKey)
    \/ \E res \in Keys : SetAppex(MaxKey, MaxKey, res)
    \/ \E id \in Discs : SetReplaceId(id)
    \/ MatchReplace(MaxUnary)
    \/ \E res \in Keys : SetReplace(MaxUnary, res)

SpecManager == InitManager /\ [][NextManager]_vars

\* ---- fused apply-and-quantify under several operators and variable sets --
InitAppex == Init /\ client = "appex"

NextAppex ==
    \/ \E op \in Discs, varset \in Discs : SetAppexId(op, varset)
    \/ \E left \in Keys, right \in Keys : MatchAppex(left, right)
    \/ \E left \in Keys, right \in Keys, res \in Keys : SetAppex(left, right, res)
    \/ AppexReset

SpecAppex == InitAppex /\ [][NextAppex]_vars

(***************************************************************************)
(* What the lookups of a cache return, for any discriminant in force.      *)
(***************************************************************************)
AppexIds == { (varset * 4) + op : op \in FusedOps, varset \in Discs }

HitApply(bc, left, right, op) == matchapply([bc EXCEPT !.op = op], left, right)
HitQuant(bc, n, varset, id) == matchquant([bc EXCEPT !.id = id], n, varset)
HitAppex(bc, left, right, id) == matchappex([bc EXCEPT !.id = id], left, right)
HitReplace(bc, n, id) == matchreplace([bc EXCEPT !.id = id], n)

\* the steps that invalidate a table (every call records its name and size)
ApplyInvalidated ==
    \/ lastop' = "init" /\ \E ratio \in Ratios : ApplyInit(arg', ratio)
    \/ lastop' = "resize" /\ ApplyResize(arg')
    \/ lastop' = "reset" /\ ApplyReset
IteInvalidated ==
    \/ lastop' = "init" /\ \E ratio \in Ratios : IteInit(arg', ratio)
    \/ lastop' = "resize" /\ IteResize(arg')
    \/ lastop' = "reset" /\ IteReset
QuantInvalidated ==
    \/ lastop' = "init" /\ \E ratio \in Ratios : QuantInit(arg', ratio)
    \/ lastop' = "resize" /\ QuantResize(arg')
    \/ lastop' = "reset" /\ QuantReset
AppexInvalidated ==
    \/ lastop' = "init" /\ \E ratio \in Ratios : AppexInit(arg', ratio)
    \/ lastop' = "resize" /\ AppexResize(arg')
    \/ lastop' = "reset" /\ AppexReset
ReplaceInvalidated ==
    \/ lastop' = "init" /\ \E ratio \in Ratios : ReplaceInit(arg', ratio)
    \/ lastop' = "resize" /\ ReplaceResize(arg')
    \/ lastop' = "reset" /\ ReplaceReset

\* every lookup of every key under every discriminant misses
AllMissApply ==
    /\ \A left \in Keys, right \in Keys, op \in Discs : HitApply(applycache, left, right, op) = -1
    /\ \A n \in UnaryKeys : matchnot(applycache, n) = -1
AllMissIte == \A f \in Keys, g \in Keys, h \in Keys : matchite(itecache, f, g, h) = -1
AllMissQuant == \A n \in Keys, varset \in Keys, id \in Discs : HitQuant(quantcache, n, varset, id) = -1
AllMissAppex == \A left \in Keys, right \in Keys, id \in AppexIds : HitAppex(appexcache, left, right, id) = -1
AllMissReplace == \A n \in UnaryKeys, id \in Discs : HitReplace(replacecache, n, id) = -1
AllMiss == AllMissApply /\ AllMissIte /\ AllMissQuant /\ AllMissAppex /\ AllMissReplace

\* a slot that was written and then invalidated: its key field is -1 and
\* the fields reset leaves alone still hold the old entry
Residue4(bc) == \E k \in DOMAIN bc.table : bc.table[k].a = -1 /\ (bc.table[k].b # 0 \/ bc.table[k].res # 0)
Residue3(bc) == \E k \in DOMAIN bc.table : bc.table[k].a = -1 /\ (bc.table[k].c # 0 \/ bc.table[k].res # 0)

(***************************************************************************)
(* C1  No wrong hit.  A lookup of key k under discriminant d returns a     *)
(* value other than -1 only if that value was passed to the most recent    *)
(* insert of k under d and no init, resize or reset came after it.  Stated *)
(* over the steps of a run: no lookup hits at the start; an insert of      *)
(* (k, v) under d makes the lookup of k under d return v; an init, resize  *)
(* or reset makes it return -1; every other step (an insert of another key *)
(* or under another discriminant, a Not insert, a discriminant change)     *)
(* leaves it as it was or turns it into -1.                                *)
(***************************************************************************)
C1_Not ==
    \A n \in UnaryKeys :
        LET old == matchnot(applycache, n)
            new == matchnot(applycache', n)
            inserted == lastop' = "setnot" /\ \E res \in Keys : SetNot(n, res)
        IN  /\ \A res \in Keys : lastop' = "setnot" /\ SetNot(n, res) => new = res
            /\ ~inserted => new \in {old, -1}

C1_Apply ==
    IF ApplyInvalidated
    THEN AllMissApply'
    ELSE /\ C1_Not
         /\ \A left \in Keys, right \in Keys, op \in Discs :
            LET old == HitApply(applycache, left, right, op)
                new == HitApply(applycache', left, right, op)
                inserted == lastop' = "setapply" /\ applycache.op = op /\ \E res \in Keys : SetApply(left, right, res)
            IN  /\ \A res \in Keys : lastop' = "setapply" /\ applycache.op = op /\ SetApply(left, right, res) => new = res
                /\ ~inserted => new \in {old, -1}

C1_Ite ==
    IF IteInvalidated
    THEN AllMissIte'
    ELSE \A f \in Keys, g \in Keys, h \in Keys :
            LET old == matchite(itecache, f, g, h)
                new == matchite(itecache', f, g, h)
                inserted == lastop' = "setite" /\ \E res \in Keys : SetIte(f, g, h, res)
            IN  /\ \A res \in Keys : lastop' = "setite" /\ SetIte(f, g, h, res) => new = res
                /\ ~inserted => new \in {old, -1}

C1_Quant ==
    IF QuantInvalidated
    THEN AllMissQuant'
    ELSE \A n \in Keys, varset \in Keys, id \in Discs :
            LET old == HitQuant(quantcache, n, varset, id)
                new == HitQuant(quantcache', n, varset, id)
                inserted == lastop' = "setquant" /\ quantcache.id = id /\ \E res \in Keys : SetQuant(n, varset, res)
            IN  /\ \A res \in Keys : lastop' = "setquant" /\ quantcache.id = id /\ SetQuant(n, varset, res) => new = res
                /\ ~inserted => new \in {old, -1}

C1_Appex ==
    IF AppexInvalidated
    THEN AllMissAppex'
    ELSE \A left \in Keys, right \in Keys, id \in AppexIds :
            LET old == HitAppex(appexcache, left, right, id)
                new == HitAppex(appexcache', left, right, id)
                inserted == lastop' = "setappex" /\ appexcache.id = id /\ \E res \in Keys : SetAppex(left, right, res)
            IN  /\ \A res \in Keys : lastop' = "setappex" /\ appexcache.id = id /\ SetAppex(left, right, res) => new = res
                /\ ~inserted => new \in {old, -1}

C1_Replace ==
    IF ReplaceInvalidated
    THEN AllMissReplace'
    ELSE \A n \in UnaryKeys, id \in Discs :
            LET old == HitReplace(replacecache, n, id)
                new == HitReplace(replacecache', n, id)
                inserted == lastop' = "setreplace" /\ replacecache.id = id /\ \E res \in Keys : SetReplace(n, res)
            IN  /\ \A res \in Keys : lastop' = "setreplace" /\ replacecache.id = id /\ SetReplace(n, res) => new = res
                /\ ~inserted => new \in {old, -1}

C1_NoWrongHit ==
    /\ AllMiss
    /\ [][CASE client = "apply" -> C1_Apply
            [] client = "ite" -> C1_Ite
            [] client = "quant" -> C1_Quant
            [] client = "appex" -> C1_Appex
            [] client = "replace" -> C1_Replace]_vars

\* a lookup hits in a table that was invalidated and written again, while
\* another key of the same slot misses
C1_Witness ==
    /\ Residue3(replacecache)
    /\ \E n \in UnaryKeys, m \in UnaryKeys :
        /\ n # m
        /\ n % len(replacecache.table) = m % len(replacecache.table)
        /\ matchreplace(replacecache, n) # -1
        /\ matchreplace(replacecache, m) = -1

(***************************************************************************)
(* C2  Soundness.  A lookup that directly follows an insert of the same    *)
(* key under the same discriminant returns the inserted result: in the     *)
(* state an insert (x, y, r) leaves, the lookup of (x, y) returns r.  The  *)
(* same for ITE (f, g, h), Quant (n, varset), AppEx (left, right) and      *)
(* Replace (n), each under the discriminant of the insert.                 *)
(***************************************************************************)
C2_Step ==
    CASE lastop' = "setapply" ->
            \A left \in Keys, right \in Keys, res \in Keys :
                SetApply(left, right, res) => matchapply(applycache', left, right) = res
      [] lastop' = "setite" ->
            \A f \in Keys, g \in Keys, h \in Keys, res \in Keys :
                SetIte(f, g, h, res) => matchite(itecache', f, g, h) = res
      [] lastop' = "setquant" ->
            \A n \in Keys, varset \in Keys, res \in Keys :
                SetQuant(n, varset, res) => matchquant(quantcache', n, varset) = res
      [] lastop' = "setappex" ->
            \A left \in Keys, right \in Keys, res \in Keys :
                SetAppex(left, right, res) => matchappex(appexcache', left, right) = res
      [] lastop' = "setreplace" ->
            \A n \in UnaryKeys, res \in Keys :
                SetReplace(n, res) => matchreplace(replacecache', n) = res
      [] OTHER -> TRUE

C2_Soundness == [][C2_Step]_vars

\* an insert under a discriminant other than 0 has just overwritten a slot
\* that held another key, and its lookup hits
C2_Witness ==
    /\ lastop = "setapply"
    /\ applycache.op # 0
    /\ \E left \in Keys, right \in Keys :
        /\ matchapply(applycache, left, right) # -1
        /\ \E k \in DOMAIN applycache.table : applycache.table[k].a = -1 /\ applycache.table[k].res # 0

(***************************************************************************)
(* C3  Discriminant isolation, as stated: in the Apply, Quant, AppEx and   *)
(* Replace caches, once a key is inserted under discriminant d1, a lookup  *)
(* of that key under any other discriminant d2 returns -1.                 *)
(***************************************************************************)
C3_StepAsStated ==
    CASE lastop' = "setapply" ->
            \A left \in Keys, right \in Keys, res \in Keys, d2 \in Discs \ {applycache.op} :
                SetApply(left, right, res) => HitApply(applycache', left, right, d2) = -1
      [] lastop' = "setquant" ->
            \A n \in Keys, varset \in Keys, res \in Keys, d2 \in Discs \ {quantcache.id} :
                SetQuant(n, varset, res) => HitQuant(quantcache', n, varset, d2) = -1
      [] lastop' = "setappex" ->
            \A left \in Keys, right \in Keys, res \in Keys, d2 \in AppexIds \ {appexcache.id} :
                SetAppex(left, right, res) => HitAppex(appexcache', left, right, d2) = -1
      [] lastop' = "setreplace" ->
            \A n \in UnaryKeys, res \in Keys, d2 \in Discs \ {replacecache.id} :
                SetReplace(n, res) => HitReplace(replacecache', n, d2) = -1
      [] OTHER -> TRUE

C3_AsStated == [][C3_StepAsStated]_vars

(***************************************************************************)
(* C3  Discriminant isolation, amended: once a key is inserted under d1, a *)
(* lookup of that key under any other discriminant d2 never returns the    *)
(* entry inserted under d1.  It returns -1 when d1 and d2 hash the key to  *)
(* the same slot, which is always so in the Quant and Replace caches; when *)
(* they hash it to different slots (Apply, AppEx) it returns what it       *)
(* returned before the insert, the result of an earlier insert of the key  *)
(* under d2 if that entry is still in its slot and -1 otherwise.           *)
(***************************************************************************)
C3_Step ==
    CASE lastop' = "setapply" ->
            \A left \in Keys, right \in Keys, res \in Keys, d2 \in Discs \ {applycache.op} :
                SetApply(left, right, res) =>
                    HitApply(applycache', left, right, d2) =
                        IF _TRIPLE(left, right, d2, len(applycache.table))
                            = _TRIPLE(left, right, applycache.op, len(applycache.table))
                        THEN -1
                        ELSE HitApply(applycache, left, right, d2)
      [] lastop' = "setquant" ->
            \A n \in Keys, varset \in Keys, res \in Keys, d2 \in Discs \ {quantcache.id} :
                SetQuant(n, varset, res) => HitQuant(quantcache', n, varset, d2) = -1
      [] lastop' = "setappex" ->
            \A left \in Keys, right \in Keys, res \in Keys, d2 \in AppexIds \ {appexcache.id} :
                SetAppex(left, right, res) =>
                    HitAppex(appexcache', left, right, d2) =
                        IF _TRIPLE(left, right, d2, len(appexcache.table))
                            = _TRIPLE(left, right, appexcache.id, len(appexcache.table))
                        THEN -1
                        ELSE HitAppex(appexcache, left, right, d2)
      [] lastop' = "setreplace" ->
            \A n \in UnaryKeys, res \in Keys, d2 \in Discs \ {replacecache.id} :
                SetReplace(n, res) => HitReplace(replacecache', n, d2) = -1
      [] OTHER -> TRUE

C3_Isolation == [][C3_Step]_vars

\* after an insert under the operator code in force, the lookup of the same
\* key hits under that code and, from another slot, under another code too
C3_Witness ==
    /\ lastop = "setapply"
    /\ \E left \in Keys, right \in Keys, d2 \in Discs \ {applycache.op} :
        /\ matchapply(applycache, left, right) # -1
        /\ HitApply(applycache, left, right, d2) # -1
        /\ HitApply(applycache, left, right, d2) # matchapply(applycache, left, right)

(***************************************************************************)
(* The cache the run works on, its capacity, and its lookups.              *)
(***************************************************************************)
ClientCache ==
    CASE client = "apply" -> applycache
      [] client = "ite" -> itecache
      [] client = "quant" -> quantcache
      [] client = "appex" -> appexcache
      [] client = "replace" -> replacecache

ClientAllMiss ==
    CASE client = "apply" -> AllMissApply
      [] client = "ite" -> AllMissIte
      [] client = "quant" -> AllMissQuant
      [] client = "appex" -> AllMissAppex
      [] client = "replace" -> AllMissReplace

ClientEmpty == \A k \in DOMAIN ClientCache.table : ClientCache.table[k].a = -1

ResetStep == lastop' = "reset" /\ (ApplyReset \/ IteReset \/ QuantReset \/ AppexReset \/ ReplaceReset)

ResizeStep ==
    /\ lastop' = "resize"
    /\ \/ ApplyResize(arg') \/ IteResize(arg') \/ QuantResize(arg')
       \/ AppexResize(arg') \/ ReplaceResize(arg')

(***************************************************************************)
(* C4  Reset completeness.  After reset on a table reached by any sequence *)
(* of inserts, every lookup of every key under every discriminant returns  *)
(* -1 until the next insert, and the reset leaves the capacity as it was.  *)
(***************************************************************************)
C4_ResetCompleteness ==
    /\ [](lastop = "reset" => ClientAllMiss)
    /\ [][ResetStep => len(ClientCache'.table) = len(ClientCache.table)]_vars

\* a reset of a table of capacity 3 that held an entry under a discriminant
\* other than 0: the slot keeps the entry's other fields
C4_Witness ==
    /\ lastop = "reset"
    /\ client = "quant"
    /\ len(quantcache.table) = 3
    /\ \E k \in DOMAIN quantcache.table : quantcache.table[k].c # 0 /\ quantcache.table[k].res # 0

(***************************************************************************)
(* C5  Resize invalidation.  After resize(n) on a table whose ratio is     *)
(* greater than 0 the capacity is the smallest prime greater than or equal *)
(* to n / ratio (integer division), and every lookup of every key under    *)
(* every discriminant returns -1 until the next insert.                    *)
(***************************************************************************)
C5_ResizeInvalidation ==
    lastop = "resize" /\ ClientCache.ratio > 0 =>
        LET want == GoDiv(arg, ClientCache.ratio)
            capacity == len(ClientCache.table)
        IN  /\ capacity >= want
            /\ IsPrime(capacity)
            /\ \A p \in want..(capacity - 1) : ~IsPrime(p)
            /\ ClientAllMiss

\* resize(MaxSize) with ratio MaxRatio: the quotient is not MaxSize
C5_Witness ==
    /\ lastop = "resize"
    /\ client = "ite"
    /\ itecache.ratio = MaxRatio
    /\ arg = MaxSize
    /\ Residue4(itecache) = FALSE
    /\ len(itecache.table) < arg

(***************************************************************************)
(* C6  Fixed-size resize.  resize(n) on a table whose ratio is 0 leaves    *)
(* the capacity as it was, for every n, and invalidates every slot: every  *)
(* lookup returns -1 afterwards, until the next insert.                    *)
(***************************************************************************)
C6_FixedSizeResize ==
    /\ [](lastop = "resize" /\ ClientCache.ratio = 0 => ClientEmpty /\ ClientAllMiss)
    /\ [][ResizeStep /\ ClientCache.ratio = 0 =>
            len(ClientCache'.table) = len(ClientCache.table)]_vars

\* a resize with ratio 0 of a table of capacity 3 that held an entry; the
\* requested size would have given another capacity
C6_Witness ==
    /\ lastop = "resize"
    /\ client = "replace"
    /\ replacecache.ratio = 0
    /\ len(replacecache.table) = 3
    /\ arg < 3
    /\ Residue3(replacecache)

(***************************************************************************)
(* C7  Sentinel safety.  After init(minCapacity, ratio) the capacity is at *)
(* least 1 for every minCapacity, zero and negative ones included, and     *)
(* every slot is empty: its first key field is -1, which no node id is.    *)
(* The same holds of all five caches after cacheinit.                      *)
(***************************************************************************)
C7_SentinelSafety ==
    /\ lastop = "init" => len(ClientCache.table) >= 1 /\ ClientEmpty /\ ClientAllMiss
    /\ lastop = "cacheinit" =>
        /\ \A bc \in {applycache, itecache, quantcache, appexcache} :
            len(bc.table) >= 1 /\ \A k \in DOMAIN bc.table : bc.table[k].a = -1
        /\ len(replacecache.table) >= 1
        /\ \A k \in DOMAIN replacecache.table : replacecache.table[k].a = -1
    /\ \A n \in Keys \cup UnaryKeys : n # -1

\* an init with a negative minimum capacity, under a discriminant other than 0
C7_Witness ==
    /\ lastop = "init"
    /\ client = "appex"
    /\ arg < 0
    /\ appexcache.id # 0

(***************************************************************************)
(* The variable-set register.                                              *)
(***************************************************************************)
Levels == 0..(varnum - 1)

\* the membership test of the quantification recursion
InVarset(quantset_, quantsetID_, level) == quantset_[level] = quantsetID_

(***************************************************************************)
(* C8  quantset2cache(head) returns the illegal-variable-set error exactly *)
(* when head is a terminal node (0 or 1), and returns no error for every   *)
(* head that is a non-terminal node.                                       *)
(***************************************************************************)
C8_IllegalVarset ==
    lastop = "quantset2cache" =>
        /\ ret = "illegal varset" <=> arg \in {0, 1}
        /\ arg \in DOMAIN nodes \ {0, 1} => ret = "nil"
        /\ ret = "illegal varset" => error

\* node 1 is refused after an earlier registration succeeded
C8_Witness ==
    /\ lastop = "quantset2cache"
    /\ arg = 1
    /\ ret = "illegal varset"
    /\ quantsetID > 0
    /\ \E level \in Levels : InVarset(quantset, quantsetID, level)

(***************************************************************************)
(* C9  Generation monotonicity.  Each successful quantset2cache call       *)
(* strictly increases quantsetID, except the call on which the counter     *)
(* would reach its maximum: that call replaces the register by an all-zero *)
(* one before it marks its chain, and sets the counter to 1.  After any    *)
(* successful call, no level outside the call's chain has a stored         *)
(* generation equal to the counter; after a wrap no generation stored      *)
(* before it is left in the register.                                      *)
(***************************************************************************)
C9_Step ==
    \A n \in DOMAIN nodes \ {0, 1} :
        Quantset2cache(n) =>
            /\ IF quantsetID + 1 = MaxInt32
               THEN /\ quantsetID' = 1
                    /\ \A level \in Levels :
                        quantset'[level] = IF level \in chain(n) THEN 1 ELSE 0
               ELSE /\ quantsetID' > quantsetID
                    /\ \A level \in Levels \ chain(n) : quantset'[level] = quantset[level]
            /\ \A level \in Levels \ chain(n) : ~InVarset(quantset', quantsetID', level)

C9_GenerationMonotonicity ==
    /\ [](len(quantset) = varnum => \A level \in Levels : quantset[level] <= quantsetID)
    /\ [](wraps > 0 => \A level \in Levels : quantset[level] \in 0..quantsetID /\ quantsetID < AgedID)
    /\ [][C9_Step]_vars

\* the counter has wrapped and grown again, and a level holds the
\* generation of the wrapping call, which is stale now
C9_Witness ==
    /\ wraps > 0
    /\ quantsetID = 2
    /\ \E level \in Levels : quantset[level] = 1
    /\ \E level \in Levels : quantset[level] = 2

(***************************************************************************)
(* C10  Variable-set membership.  After any sequence of successful         *)
(* quantset2cache calls, wrapping ones included, quantset[L] = quantsetID  *)
(* holds of a level L if and only if L is the level of a node on the       *)
(* high-link chain given to the most recent call.                          *)
(***************************************************************************)
C10_Membership ==
    lastop = "quantset2cache" /\ ret = "nil" =>
        \A level \in Levels : InVarset(quantset, quantsetID, level) <=> level \in chain(arg)

\* a level of the chain is a member and a level marked by an earlier
\* registration is not
C10_Witness ==
    /\ lastop = "quantset2cache"
    /\ ret = "nil"
    /\ \E level \in Levels : InVarset(quantset, quantsetID, level)
    /\ \E level \in Levels : quantset[level] # 0 /\ ~InVarset(quantset, quantsetID, level)

(***************************************************************************)
(* C11  Quantification-cache staleness: once a new variable set has been   *)
(* registered for a later quantification, no lookup of the Quant cache     *)
(* returns a result that was inserted during an earlier quantification     *)
(* over a different variable set, although registering leaves the table as *)
(* it is.  Stated on the steps: a registration changes no slot, and an     *)
(* insert made during the quantification over one variable set creates no  *)
(* hit for a lookup keyed by a node of a different variable set, under any *)
(* id.                                                                     *)
(***************************************************************************)
C11_Step ==
    /\ lastop' = "quantset2cache" => quantcache'.table = quantcache.table
    /\ (lastop' = "setquant" /\ quantcache'.table # quantcache.table) =>
            \A w \in ActiveVarsets, v \in Heads :
                chain(v) # chain(w) =>
                    \A n \in Keys, id \in Discs :
                        HitQuant(quantcache', n, v, id)
                            \in {HitQuant(quantcache, n, v, id), -1}

C11_Staleness == [][C11_Step]_vars

\* a second variable set is registered while the table still holds, under
\* the id in force, an entry of the quantification over the first one
C11_Witness ==
    /\ lastop = "quantset2cache"
    /\ ret = "nil"
    /\ quantsetID = 2
    /\ \E w \in ActiveVarsets, v \in Heads :
          /\ chain(v) # chain(w)
          /\ \E n \in Keys :
                /\ HitQuant(quantcache, n, v, quantcache.id) # -1
                /\ matchquant(quantcache, n, w) = -1

(***************************************************************************)
(* C12  AppEx combination isolation: an entry inserted for key             *)
(* (left, right) under one combination of fused operator code and active   *)
(* variable set is never returned by a lookup of (left, right) made under  *)
(* a different operator code or a different variable set.  Stated on the   *)
(* insert step: under every other combination, every key's lookup returns  *)
(* after the insert what it returned before it, or misses.                 *)
(***************************************************************************)
PackedId(op, varset) == (varset * 4) + op

C12_Step ==
    (lastop' = "setappex" /\ appexcache'.table # appexcache.table) =>
        \A op1 \in Discs, v1 \in Discs, op2 \in Discs, v2 \in Discs :
            (/\ appexcache.op = op1
             /\ appexcache.id = PackedId(op1, v1)
             /\ <<op1, v1>> # <<op2, v2>>) =>
                \A left \in Keys, right \in Keys :
                    HitAppex(appexcache', left, right, PackedId(op2, v2))
                        \in {HitAppex(appexcache, left, right, PackedId(op2, v2)), -1}

C12_Isolation == [][C12_Step]_vars

\* a key was just inserted under one combination while the table holds the
\* same key under the other operator and under the other variable set, each
\* with a different result
C12_Witness ==
    /\ lastop = "setappex"
    /\ \E v1 \in Discs, op2 \in Discs, v2 \in Discs, left \in Keys, right \in Keys :
          /\ appexcache.id = PackedId(appexcache.op, v1)
          /\ op2 # appexcache.op
          /\ v2 # v1
          /\ matchappex(appexcache, left, right) # -1
          /\ HitAppex(appexcache, left, right, PackedId(op2, v1))
                \notin {-1, matchappex(appexcache, left, right)}
          /\ HitAppex(appexcache, left, right, PackedId(appexcache.op, v2)) = -1

(***************************************************************************)
(* C13  Not sub-mode of the Apply cache: setnot(n, r) followed by          *)
(* matchnot(n), with no write to slot n mod capacity in between, returns r *)
(* whatever the operator in force at the insert and at the lookup; and,    *)
(* the operator in force never being the reserved NOT code, matchnot never *)
(* returns a result stored by setapply and matchapply never returns a      *)
(* result stored by setnot, although both share one table.                 *)
(***************************************************************************)
AnyOps == Discs \cup {op_not}

HitNot(bc, n, op) == matchnot([bc EXCEPT !.op = op], n)

C13_Step ==
    client = "apply" =>
        /\ (lastop' = "setnot" /\ applycache'.table # applycache.table) =>
              \E n \in UnaryKeys, res \in Keys :
                  /\ applycache' = setnot(applycache, n, res)
                  /\ \A op \in AnyOps : HitNot(applycache', n, op) = res
                  /\ \A left \in Keys, right \in Keys, op \in Discs :
                        HitApply(applycache', left, right, op)
                            \in {HitApply(applycache, left, right, op), -1}
        /\ (lastop' = "setapply" /\ applycache'.table # applycache.table) =>
              \A n \in UnaryKeys, op \in AnyOps :
                  HitNot(applycache', n, op) \in {HitNot(applycache, n, op), -1}
        /\ \A n \in UnaryKeys :
              (/\ len(applycache'.table) = len(applycache.table)
               /\ applycache'.table[n % len(applycache.table)]
                      = applycache.table[n % len(applycache.table)]) =>
                  \A op \in AnyOps : HitNot(applycache', n, op) = HitNot(applycache, n, op)

C13_NotSubmode == [][C13_Step]_vars

\* a Not entry was just stored for a node that is also the left operand of
\* a binary entry with another result, under the largest operator code
C13_Witness ==
    /\ client = "apply"
    /\ lastop = "setnot"
    /\ applycache.op = MaxDisc
    /\ \E n \in Keys, right \in Keys :
          /\ matchnot(applycache, n) # -1
          /\ matchapply(applycache, n, right) \notin {-1, matchnot(applycache, n)}

(***************************************************************************)
(* C14  cachereset invalidates the five caches (every lookup in each of    *)
(* them then misses) and leaves unchanged the variable-set register, the   *)
(* generation counter quantsetID, quantlast, and every cache's capacity,   *)
(* ratio and discriminant (op, id).                                        *)
(***************************************************************************)
C14_Step ==
    (lastop' = "cachereset" /\ lastop # "cachereset") =>
        /\ AllMiss'
        /\ quantset' = quantset
        /\ quantsetID' = quantsetID
        /\ quantlast' = quantlast
        /\ len(applycache'.table) = len(applycache.table)
        /\ len(itecache'.table) = len(itecache.table)
        /\ len(quantcache'.table) = len(quantcache.table)
        /\ len(appexcache'.table) = len(appexcache.table)
        /\ len(replacecache'.table) = len(replacecache.table)
        /\ applycache'.op = applycache.op
        /\ quantcache'.id = quantcache.id
        /\ appexcache'.op = appexcache.op /\ appexcache'.id = appexcache.id
        /\ replacecache'.id = replacecache.id
        /\ applycache'.ratio = applycache.ratio /\ itecache'.ratio = itecache.ratio
        /\ quantcache'.ratio = quantcache.ratio /\ appexcache'.ratio = appexcache.ratio
        /\ replacecache'.ratio = replacecache.ratio

C14_ResetAll == [][C14_Step]_vars

\* cachereset has just run on an engine whose register holds a variable
\* set, whose client had stored an entry under a non-zero discriminant (the
\* ITE cache has none) and whose caches had been resized
C14_Witness ==
    /\ lastop = "cachereset"
    /\ quantsetID > 0
    /\ quantlast > 0
    /\ \E l \in DOMAIN quantset : quantset[l] = quantsetID
    /\ len(applycache.table) > cacheinit_size(0)
    /\ CASE client = "apply" -> Residue4(applycache) /\ applycache.op # 0
         [] client = "ite" -> Residue4(itecache)
         [] client = "quant" -> Residue4(quantcache) /\ quantcache.id # 0
         [] client = "appex" -> Residue4(appexcache) /\ appexcache.id # 0
         [] client = "replace" -> Residue3(replacecache) /\ replacecache.id # 0

(***************************************************************************)
(* C15  cacheinit(size, ratio): when size <= 0 the base size is            *)
(* nodeCount/4 + 1, otherwise it is size; afterwards the five caches have  *)
(* the same capacity, the smallest prime >= that base size, all of them    *)
(* record the given ratio and have every slot empty, and the variable-set  *)
(* register has length zero.                                               *)
(***************************************************************************)
BaseSize(size) == IF size <= 0 THEN (len(nodes) \div 4) + 1 ELSE size

SmallestPrimeFrom(base, p) ==
    /\ p >= base
    /\ IsPrime(p)
    /\ \A q \in base..(p - 1) : ~IsPrime(q)

AllEmpty ==
    /\ \A k \in DOMAIN applycache.table : applycache.table[k].a = -1
    /\ \A k \in DOMAIN itecache.table : itecache.table[k].a = -1
    /\ \A k \in DOMAIN quantcache.table : quantcache.table[k].a = -1
    /\ \A k \in DOMAIN appexcache.table : appexcache.table[k].a = -1
    /\ \A k \in DOMAIN replacecache.table : replacecache.table[k].a = -1

\* what holds from a cacheinit until the next call that writes the state
C15_After ==
    lastop = "cacheinit" =>
        /\ SmallestPrimeFrom(BaseSize(arg), len(applycache.table))
        /\ len(itecache.table) = len(applycache.table)
        /\ len(quantcache.table) = len(applycache.table)
        /\ len(appexcache.table) = len(applycache.table)
        /\ len(replacecache.table) = len(applycache.table)
        /\ AllEmpty
        /\ AllMiss
        /\ len(quantset) = 0

\* the ratio recorded is the ratio given
C15_Step ==
    (lastop' = "cacheinit" /\ (lastop # "cacheinit" \/ arg' # arg)) =>
        \E ratio \in Ratios :
            /\ CacheInit(arg', ratio)
            /\ applycache'.ratio = ratio /\ itecache'.ratio = ratio
            /\ quantcache'.ratio = ratio /\ appexcache'.ratio = ratio
            /\ replacecache'.ratio = ratio

C15_InitAll == []C15_After /\ [][C15_Step]_vars

\* cacheinit with no size given has just run on an engine in use: the
\* default capacity is not the capacity size 0 itself would give, a variable
\* set had been registered, and a non-zero ratio is recorded
C15_Witness ==
    /\ lastop = "cacheinit"
    /\ arg <= 0
    /\ len(applycache.table) # bdd_prime_gte(arg)
    /\ quantsetID > 0
    /\ replacecache.ratio = MaxRatio

(***************************************************************************)
(* C16  Collision replacement: an insert returns its result argument and   *)
(* overwrites the slot its key indexes whatever the slot holds, changing   *)
(* no other slot; so once a key k2 is inserted, a lookup of k2 returns     *)
(* k2's result and a lookup of any different key k1 that maps to the same  *)
(* slot misses, also when k1 had been inserted before.                     *)
(***************************************************************************)
C16_Apply ==
    (/\ client = "apply"
     /\ lastop' = "setapply"
     /\ <<applycache.table, ret, displaced, lastop>>' # <<applycache.table, ret, displaced, lastop>>) =>
        \E left \in Keys, right \in Keys, res \in Keys :
            LET i == _TRIPLE(left, right, applycache.op, len(applycache.table))
            IN  /\ ret' = res
                /\ DOMAIN applycache'.table = DOMAIN applycache.table
                /\ applycache'.table[i] = [res |-> res, a |-> left, b |-> right, c |-> applycache.op]
                /\ \A k \in DOMAIN applycache.table \ {i} :
                      applycache'.table[k] = applycache.table[k]
                /\ matchapply(applycache', left, right) = res
                /\ \A l1 \in Keys, r1 \in Keys :
                      (/\ <<l1, r1>> # <<left, right>>
                       /\ _TRIPLE(l1, r1, applycache.op, len(applycache.table)) = i) =>
                          matchapply(applycache', l1, r1) = -1

C16_Replace ==
    (/\ client = "replace"
     /\ lastop' = "setreplace"
     /\ <<replacecache.table, ret, displaced, lastop>>' # <<replacecache.table, ret, displaced, lastop>>) =>
        \E n \in UnaryKeys, res \in Keys :
            LET i == n % len(replacecache.table)
            IN  /\ ret' = res
                /\ DOMAIN replacecache'.table = DOMAIN replacecache.table
                /\ replacecache'.table[i] = [res |-> res, a |-> n, c |-> replacecache.id]
                /\ \A k \in DOMAIN replacecache.table \ {i} :
                      replacecache'.table[k] = replacecache.table[k]
                /\ matchreplace(replacecache', n) = res
                /\ \A n1 \in UnaryKeys :
                      (n1 # n /\ n1 % len(replacecache.table) = i) =>
                          matchreplace(replacecache', n1) = -1

C16_CollisionReplacement == [][C16_Apply /\ C16_Replace]_vars

\* the insert of a key has just overwritten the live entry of a different
\* key, stored under the discriminant in force with another result: the new
\* key is found, the old one is not, and the other slot holds an entry
C16_Witness ==
    \/ /\ client = "apply"
       /\ lastop = "setapply"
       /\ displaced.a # -1
       /\ displaced.c = applycache.op
       /\ displaced.res # ret
       /\ matchapply(applycache, displaced.a, displaced.b) = -1
       /\ \E left \in Keys, right \in Keys :
             /\ <<left, right>> # <<displaced.a, displaced.b>>
             /\ _TRIPLE(left, right, applycache.op, len(applycache.table))
                    = _TRIPLE(displaced.a, displaced.b, applycache.op, len(applycache.table))
             /\ matchapply(applycache, left, right) = ret
       /\ \A k \in DOMAIN applycache.table : applycache.table[k].a # -1
    \/ /\ client = "replace"
       /\ lastop = "setreplace"
       /\ displaced.a # -1
       /\ displaced.c = replacecache.id
       /\ displaced.res # ret
       /\ matchreplace(replacecache, displaced.a) = -1
       /\ \E n \in UnaryKeys :
             /\ n # displaced.a
             /\ n % len(replacecache.table) = displaced.a % len(replacecache.table)
             /\ matchreplace(replacecache, n) = ret
       /\ \A k \in DOMAIN replacecache.table : replacecache.table[k].a # -1

(***************************************************************************)
(* C17  After a successful quantset2cache(head), quantlast equals the      *)
(* maximal level among the nodes visited on the high-link chain from head  *)
(* to the terminal.                                                        *)
(***************************************************************************)
MaxLevel(levels) == CHOOSE m \in levels : \A l \in levels : l <= m

C17_Quantlast ==
    (lastop = "quantset2cache" /\ ret = "nil") => quantlast = MaxLevel(chain(arg))

\* a chain of several nodes was registered on a long-running engine: the
\* maximal level is not the level of the head
C17_Witness ==
    /\ lastop = "quantset2cache"
    /\ ret = "nil"
    /\ Cardinality(chain(arg)) > 1
    /\ quantlast # nodes[arg].level
    /\ quantsetID > MaxGen

(***************************************************************************)
(* C18  Discriminant race: when top-level apply calls with different       *)
(* operator codes interleave on the shared Apply cache (one sets the       *)
(* operator while another's lookup and insert are still to come), a state  *)
(* is reachable in which a call has got from its lookup a result computed  *)
(* for another operator than the one it asked for (C18_Witness).  Such a   *)
(* result is got only in runs in which calls did interleave: calls that    *)
(* run one after the other get results of their own operator.              *)
(***************************************************************************)
WrongResult(p) ==
    invocation[p].got \notin
        {-1, applyresult(invocation[p].op, invocation[p].left, invocation[p].right)}

C18_OnlyByRace ==
    (\E p \in Invocations : WrongResult(p)) => \E q \in Invocations : invocation[q].raced

\* a call has finished on a hit that returned the result of another operator
C18_Witness ==
    \E p \in Invocations :
        /\ invocation[p].pc = "done"
        /\ invocation[p].raced
        /\ WrongResult(p)
        /\ invocation[p].op = applycache.op

(***************************************************************************)
(* C19  Index consistency: in every reachable state of each cache, every   *)
(* slot in use (first key # -1) sits at the index its stored fields hash   *)
(* to: in Apply, slot i holds a Not entry with i = a mod capacity or a     *)
(* binary entry with i = TRIPLE(a, b, c, capacity); in ITE and AppEx       *)
(* i = TRIPLE(a, b, c, capacity); in Quant i = PAIR(a, b, capacity); in    *)
(* Replace i = a mod capacity.                                             *)
(***************************************************************************)
InUse4(bc) == {i \in DOMAIN bc.table : bc.table[i].a # -1}

AtTriple(bc, i) ==
    i = _TRIPLE(bc.table[i].a, bc.table[i].b, bc.table[i].c, len(bc.table))

C20_Step ==
    (lastop' = "quantset2cache" /\ ret' = "illegal varset") =>
        /\ quantsetID' = quantsetID
        /\ quantset' = quantset
        /\ quantlast' = quantlast
        /\ \A level \in Levels :
              InVarset(quantset', quantsetID', level) <=> InVarset(quantset, quantsetID, level)

C20_FailedRegistration == [][C20_Step]_vars

\* the registration of terminal 1 has just failed on an engine whose
\* register holds a variable set that leaves a level out
C20_Witness ==
    /\ lastop = "quantset2cache"
    /\ ret = "illegal varset"
    /\ arg = 1
    /\ quantlast > 0
    /\ \E level \in Levels : InVarset(quantset, quantsetID, level)
    /\ \E level \in Levels : ~InVarset(quantset, quantsetID, level)

====
